---- MODULE Spec2Model ----
(***************************************************************************)
(* framed-serial: the FramedConnection send/receive state machine of       *)
(* src/src/lib.rs over a non-blocking byte transport.                      *)
(*                                                                         *)
(* A Vec<u8> is a sequence of numbers in 0..255; Rust's 0-based indices    *)
(* are kept in the state (index) and shifted by one when a sequence is     *)
(* read.  A Result is a record [kind, val]; a panic (an array index out of *)
(* bounds) is a third kind, "panic", which ends the process.               *)
(***************************************************************************)
EXTENDS Integers, Sequences, FiniteSets, TLC

\* ------------------------------------------------------------------ bounds
\* Longest payload of the frames the callers schedule.
MaxLen == 2
\* Number of bytes the transport carries for the connection in a run.
MaxWire == 7
\* Number of bytes the environment puts on the receive side in a run.
MaxFeed == 6
\* Largest number of bytes a transport takes or gives in one tick before it
\* answers would-block / no-byte / error (or else all there is).
MaxBurst == 1
\* Payload length of the one long frame, longer than a length byte can say.
LongLen == 258

\* ------------------------------------------------------- program constants
SENTINEL == 255
U16Max == 65535

\* The frames the callers schedule: of every length up to MaxLen, the bytes
\* 0x01 and 0xFF alternating, starting with either.
Alternating(first, n) == [i \in 1 .. n |-> IF (i + first) % 2 = 0 THEN SENTINEL ELSE 1]
Frames == {Alternating(first, n) : first \in {0, 1}, n \in 0 .. MaxLen}
\* The bytes the environment feeds to a receiver.
FeedBytes == {0, 1, SENTINEL}

\* ------------------------------------------------------------ wire helpers
\* A big-endian length, for comparison.
write_u16_be(n) == <<(n \div 256) % 256, n % 256>>
\* byteorder::LittleEndian::write_u16(&mut buf, n)
write_u16(n) == <<n % 256, (n \div 256) % 256>>
\* byteorder::LittleEndian::read_u16(&bytes)
read_u16(bytes) == bytes[1] + 256 * bytes[2]

\* ------------------------------------------------------------------- state
\* A Result: kind is "ok" (val: the value) or "err" (val: the message of
\* Error::new); "panic" is the abort of the process instead of a return.
Ok(v) == [kind |-> "ok", val |-> v]
Err(msg) == [kind |-> "err", val |-> msg]
Panic(msg) == [kind |-> "panic", val |-> msg]
IsOk(r) == r.kind = "ok"
IsErr(r) == r.kind = "err"
IsPanic(r) == r.kind = "panic"

NotSending == [tag |-> "NotSending"]
Sending(s) == [tag |-> "Sending", s |-> s]
Unknown == [tag |-> "Unknown"]
Header(hs) == [tag |-> "Header", hs |-> hs]
Data(ds) == [tag |-> "Data", ds |-> ds]

_start_recv_state == Unknown
_start_send_state == NotSending

\* FramedConnection::new; the transport is kept apart, in in_flight and wire.
new == [recv_buf |-> <<>>,
        recv_state |-> _start_recv_state,
        send_state |-> _start_send_state]

\* For comparison: a schedule_send that refuses 65535 too.
schedule_send_ge(c, frame) ==
  IF Len(frame) >= U16Max
  THEN [conn |-> c, ret |-> Err("frame data too long")]
  ELSE [conn |-> [c EXCEPT !.send_state =
                     Sending([what_next |-> "Sentinel",
                              index |-> 0,
                              header_bytes |-> write_u16(Len(frame)),
                              frame |-> frame])],
        ret |-> Ok("unit")]
\* For comparison: a schedule_send that keeps the position of a send under way.
schedule_send_keep(c, frame) ==
  IF Len(frame) > U16Max
  THEN [conn |-> c, ret |-> Err("frame data too long")]
  ELSE [conn |-> [c EXCEPT !.send_state =
                     Sending([what_next |-> IF c.send_state.tag = "Sending"
                                            THEN c.send_state.s.what_next
                                            ELSE "Sentinel",
                              index |-> IF c.send_state.tag = "Sending"
                                        THEN c.send_state.s.index
                                        ELSE 0,
                              header_bytes |-> write_u16(Len(frame)),
                              frame |-> frame])],
        ret |-> Ok("unit")]

\* ----------------------------------------------------------- schedule_send
schedule_send(c, frame) ==
  IF Len(frame) > U16Max
  THEN [conn |-> c, ret |-> Err("frame data too long")]
  ELSE [conn |-> [c EXCEPT !.send_state =
                     Sending([what_next |-> "Sentinel",
                              index |-> 0,
                              header_bytes |-> write_u16(Len(frame)),
                              frame |-> frame])],
        ret |-> Ok("unit")]

\* -------------------------------------------------------------- _send_tick
\* The transport's answers to the putc_try calls of one tick: it accepts the
\* first n bytes and answers `last` ("none": would block, "err") to the next.
\* out: the bytes accepted, tries: the putc_try calls made.
next_byte(s) ==
  CASE s.what_next = "Sentinel" -> SENTINEL
    [] s.what_next = "Header" -> s.header_bytes[s.index + 1]
    [] s.what_next = "Data" -> s.frame[s.index + 1]

\* The update of the sending state after the transport accepted a byte; done
\* is the break out of the loop.
after_putc_early(s) ==
  LET i == s.index + 1 IN
  CASE s.what_next = "Sentinel" ->
         [s |-> [s EXCEPT !.what_next = "Header", !.index = 0], done |-> FALSE]
    [] s.what_next = "Header" ->
         IF i = 2
         THEN [s |-> [s EXCEPT !.what_next = "Data", !.index = 0], done |-> FALSE]
         ELSE [s |-> [s EXCEPT !.index = i], done |-> FALSE]
    [] s.what_next = "Data" ->
         [s |-> [s EXCEPT !.index = i], done |-> (i >= Len(s.frame) - 1)]

after_putc(s) ==
  LET i == s.index + 1 IN
  CASE s.what_next = "Sentinel" ->
         [s |-> [s EXCEPT !.what_next = "Header", !.index = 0], done |-> FALSE]
    [] s.what_next = "Header" ->
         IF i = 2
         THEN [s |-> [s EXCEPT !.what_next = "Data", !.index = 0], done |-> FALSE]
         ELSE [s |-> [s EXCEPT !.index = i], done |-> FALSE]
    [] s.what_next = "Data" ->
         [s |-> [s EXCEPT !.index = i], done |-> (i = Len(s.frame))]

RECURSIVE send_loop(_, _, _, _, _)
send_loop(s, n, last, out, tries) ==
  IF s.what_next = "Data" /\ s.index >= Len(s.frame)
  THEN \* s.frame[s.index]: index out of bounds
       [send_state |-> Sending(s), ret |-> Panic("index out of bounds"),
        out |-> out, tries |-> tries]
  ELSE IF n = 0
  THEN [send_state |-> Sending(s),
        ret |-> IF last = "none" THEN Ok(FALSE)
                ELSE Err("unexpected error during putc_try()"),
        out |-> out, tries |-> tries + 1]
  ELSE LET a == after_putc(s)
           o == Append(out, next_byte(s))
       IN  IF a.done
           THEN [send_state |-> NotSending, ret |-> Ok(TRUE),
                 out |-> o, tries |-> tries + 1]
           ELSE send_loop(a.s, n - 1, last, o, tries + 1)

\* For comparison: a _send_tick that starts the frame again when the transport
\* refuses the first byte it is offered.
Restarted(s, r) ==
  IF r.out = <<>> /\ IsOk(r.ret)
  THEN [r EXCEPT !.send_state = Sending([s EXCEPT !.what_next = "Sentinel", !.index = 0])]
  ELSE r
_send_tick_restart(send_state, n, last) ==
  IF send_state.tag = "NotSending"
  THEN [send_state |-> send_state, ret |-> Ok(TRUE), out |-> <<>>, tries |-> 0]
  ELSE Restarted(send_state.s, send_loop(send_state.s, n, last, <<>>, 0))

_send_tick(send_state, n, last) ==
  IF send_state.tag = "NotSending"
  THEN [send_state |-> send_state, ret |-> Ok(TRUE), out |-> <<>>, tries |-> 0]
  ELSE send_loop(send_state.s, n, last, <<>>, 0)

\* -------------------------------------------------------------- _recv_tick
\* For comparison: a receiver that never finds its frame complete before it
\* asks the transport.
is_frame_complete_never(recv_state, recv_buf) == FALSE
is_frame_complete(recv_state, recv_buf) ==
  IF recv_state.tag = "Data" THEN recv_state.ds.length = Len(recv_buf) ELSE FALSE

\* For comparison: a receiver that starts the header again at a 0xFF in it.
on_byte_resync(recv_state, recv_buf, byte) ==
  CASE recv_state.tag = "Unknown" ->
         [recv_state |-> IF byte = SENTINEL
                         THEN Header([bytes |-> <<0, 0>>, index |-> 0])
                         ELSE recv_state,
          recv_buf |-> recv_buf, done |-> FALSE]
    [] recv_state.tag = "Header" ->
         LET hs == recv_state.hs
             bytes == [hs.bytes EXCEPT ![hs.index + 1] = byte]
             i == hs.index + 1
         IN  [recv_state |-> IF byte = SENTINEL
                             THEN Header([bytes |-> <<0, 0>>, index |-> 0])
                             ELSE IF i = 2
                             THEN Data([length |-> read_u16(bytes)])
                             ELSE Header([bytes |-> bytes, index |-> i]),
              recv_buf |-> recv_buf, done |-> FALSE]
    [] recv_state.tag = "Data" ->
         LET buf == Append(recv_buf, byte)
         IN  [recv_state |-> recv_state, recv_buf |-> buf,
              done |-> (Len(buf) = recv_state.ds.length)]

\* For comparison: a receiver that starts a new frame at a 0xFF in the payload.
on_byte_restart(recv_state, recv_buf, byte) ==
  CASE recv_state.tag = "Unknown" ->
         [recv_state |-> IF byte = SENTINEL
                         THEN Header([bytes |-> <<0, 0>>, index |-> 0])
                         ELSE recv_state,
          recv_buf |-> recv_buf, done |-> FALSE]
    [] recv_state.tag = "Header" ->
         LET hs == recv_state.hs
             bytes == [hs.bytes EXCEPT ![hs.index + 1] = byte]
             i == hs.index + 1
         IN  [recv_state |-> IF i = 2
                             THEN Data([length |-> read_u16(bytes)])
                             ELSE Header([bytes |-> bytes, index |-> i]),
              recv_buf |-> recv_buf, done |-> FALSE]
    [] recv_state.tag = "Data" ->
         IF byte = SENTINEL
         THEN [recv_state |-> Header([bytes |-> <<0, 0>>, index |-> 0]),
               recv_buf |-> <<>>, done |-> FALSE]
         ELSE LET buf == Append(recv_buf, byte)
              IN  [recv_state |-> recv_state, recv_buf |-> buf,
                   done |-> (Len(buf) = recv_state.ds.length)]

\* For comparison: a receiver that takes any byte but 0 for the sentinel.
on_byte_any(recv_state, recv_buf, byte) ==
  CASE recv_state.tag = "Unknown" ->
         [recv_state |-> IF byte # 0
                         THEN Header([bytes |-> <<0, 0>>, index |-> 0])
                         ELSE recv_state,
          recv_buf |-> recv_buf, done |-> FALSE]
    [] recv_state.tag = "Header" ->
         LET hs == recv_state.hs
             bytes == [hs.bytes EXCEPT ![hs.index + 1] = byte]
             i == hs.index + 1
         IN  [recv_state |-> IF i = 2
                             THEN Data([length |-> read_u16(bytes)])
                             ELSE Header([bytes |-> bytes, index |-> i]),
              recv_buf |-> recv_buf, done |-> FALSE]
    [] recv_state.tag = "Data" ->
         LET buf == Append(recv_buf, byte)
         IN  [recv_state |-> recv_state, recv_buf |-> buf,
              done |-> (Len(buf) = recv_state.ds.length)]

\* The dispatch on recv_state for one received byte; done is the early return.
on_byte(recv_state, recv_buf, byte) ==
  CASE recv_state.tag = "Unknown" ->
         [recv_state |-> IF byte = SENTINEL
                         THEN Header([bytes |-> <<0, 0>>, index |-> 0])
                         ELSE recv_state,
          recv_buf |-> recv_buf, done |-> FALSE]
    [] recv_state.tag = "Header" ->
         LET hs == recv_state.hs
             bytes == [hs.bytes EXCEPT ![hs.index + 1] = byte]
             i == hs.index + 1
         IN  [recv_state |-> IF i = 2
                             THEN Data([length |-> read_u16(bytes)])
                             ELSE Header([bytes |-> bytes, index |-> i]),
              recv_buf |-> recv_buf, done |-> FALSE]
    [] recv_state.tag = "Data" ->
         LET buf == Append(recv_buf, byte)
         IN  [recv_state |-> recv_state, recv_buf |-> buf,
              done |-> (Len(buf) = recv_state.ds.length)]

\* The transport's answers to the getc_try calls of one tick: it gives up to
\* n of the bytes in flight and then answers `last` ("none", "err").
RECURSIVE recv_loop(_, _, _, _, _, _)
recv_loop(recv_state, recv_buf, in_flight, n, last, tries) ==
  IF is_frame_complete(recv_state, recv_buf)
  THEN [recv_state |-> recv_state, recv_buf |-> recv_buf, ret |-> Ok(TRUE),
        in_flight |-> in_flight, tries |-> tries]
  ELSE IF n = 0 \/ in_flight = <<>>
  THEN [recv_state |-> recv_state, recv_buf |-> recv_buf,
        ret |-> IF last = "none" THEN Ok(FALSE)
                ELSE Err("unexpected error during getc_try()"),
        in_flight |-> in_flight, tries |-> tries + 1]
  ELSE LET r == on_byte(recv_state, recv_buf, Head(in_flight))
       IN  IF r.done
           THEN [recv_state |-> r.recv_state, recv_buf |-> r.recv_buf,
                 ret |-> Ok(TRUE), in_flight |-> Tail(in_flight),
                 tries |-> tries + 1]
           ELSE recv_loop(r.recv_state, r.recv_buf, Tail(in_flight),
                          n - 1, last, tries + 1)

_recv_tick(c, in_flight, n, last) ==
  recv_loop(c.recv_state, c.recv_buf, in_flight, n, last, 0)

\* -------------------------------------------------------------- SerialWrap
\* What read / write of the wrapped port reports: Ok(n), n the byte count, or
\* Err(e), e.kind() TimedOut or another kind.
IoOk(n) == [io |-> "ok", n |-> n, kind |-> "none"]
IoErr(kind) == [io |-> "err", n |-> 0, kind |-> kind]
NoIo == [io |-> "none", n |-> 0, kind |-> "none"]
None == [some |-> FALSE, v |-> 0]
Some(v) == [some |-> TRUE, v |-> v]

\* read: what self.inner.read(&mut buf) reported; byte: buf[0] after it.
getc_try(read, byte) ==
  IF read.io = "ok"
  THEN IF read.n = 1 THEN Ok(Some(byte))
       ELSE Err("no error, but {} bytes read.")
  ELSE IF read.kind = "TimedOut" THEN Ok(None)
       ELSE Err("Can't read, err {:?}")

\* write: what self.inner.write(&buf) reported.
putc_try(ch, write) ==
  IF write.io = "ok"
  THEN IF write.n = 0 THEN Ok(None)
       ELSE IF write.n = 1 THEN Ok(Some(ch))
       ELSE Panic("internal error: entered unreachable code")
  ELSE Err("write error {:?}")

\* -------------------------------------------------------------------- tick
\* ans: the transport's answers during the tick, [tx_n, tx_last, rx_n, rx_last].
\* loop: the transport puts the bytes it accepts on its own receive side
\* (MockSerial of tests/test.rs).
\* t is what _send_tick returned, r what _recv_tick returned, fl the
\* transport's receive side after _send_tick.  The `?` on _send_tick returns
\* its error at once, before _recv_tick is called.
tick_recv(c, t, r) ==
  [conn |-> [c EXCEPT !.send_state = t.send_state,
                      !.recv_state = r.recv_state, !.recv_buf = r.recv_buf],
   in_flight |-> r.in_flight, out |-> t.out,
   ret |-> IF IsOk(r.ret)
           THEN Ok([send_is_done |-> t.ret.val, recv_is_done |-> r.ret.val])
           ELSE r.ret,
   tx_tries |-> t.tries, rx_tries |-> r.tries]

\* For comparison: a tick that steps over the byte the transport failed on.
tick_send_skip(c, t, fl, ans) ==
  IF ~IsOk(t.ret)
  THEN [conn |-> [c EXCEPT !.send_state =
                     IF IsErr(t.ret) THEN Sending(after_putc(t.send_state.s).s)
                     ELSE t.send_state],
        in_flight |-> fl, out |-> t.out, ret |-> t.ret,
        tx_tries |-> t.tries, rx_tries |-> 0]
  ELSE tick_recv(c, t, _recv_tick(c, fl, ans.rx_n, ans.rx_last))

tick_send(c, t, fl, ans) ==
  IF ~IsOk(t.ret)
  THEN [conn |-> [c EXCEPT !.send_state = t.send_state],
        in_flight |-> fl, out |-> t.out, ret |-> t.ret,
        tx_tries |-> t.tries, rx_tries |-> 0]
  ELSE tick_recv(c, t, _recv_tick(c, fl, ans.rx_n, ans.rx_last))

\* For comparison: a tick whose receive side runs before the bytes of its send
\* side are on the transport.
Late(r, out, loop) == [r EXCEPT !.in_flight = IF loop THEN r.in_flight \o out ELSE r.in_flight]
tick_loop_late(c, t, in_flight, ans, loop) ==
  Late(tick_send(c, t, in_flight, ans), t.out, loop)

tick_loop(c, t, in_flight, ans, loop) ==
  tick_send(c, t, IF loop THEN in_flight \o t.out ELSE in_flight, ans)

tick(c, in_flight, ans, loop) ==
  tick_loop(c, _send_tick(c.send_state, ans.tx_n, ans.tx_last), in_flight, ans, loop)

\* tick of a FramedConnection<SerialWrap<T>>.  writes, reads: the port reports
\* one byte written (read) .ones times and then reports .then.  What
\* FramedConnection is answered is what putc_try and getc_try make of it; a
\* panic inside putc_try, when the send loop gets to that call, unwinds
\* through tick.
Answer(r) == IF IsOk(r) /\ ~r.val.some THEN "none" ELSE "err"
WrapAnswers(writes, reads) ==
  [tx_n |-> writes.ones, tx_last |-> Answer(putc_try(0, writes.then)),
   rx_n |-> reads.ones, rx_last |-> Answer(getc_try(reads.then, 0))]
Refused(r) == r.tx_tries > Len(r.out)
WrapUnwind(r, writes) ==
  IF Refused(r) /\ IsPanic(putc_try(0, writes.then))
  THEN [r EXCEPT !.ret = putc_try(0, writes.then)]
  ELSE r
tick_wrap(c, in_flight, writes, reads) ==
  WrapUnwind(tick(c, in_flight, WrapAnswers(writes, reads), FALSE), writes)

\* For comparison: a get_frame that starts the receiver afresh when it has no
\* frame, and one that leaves the frame it returns in place.
get_frame_reset(c) ==
  IF c.recv_state.tag = "Data" /\ Len(c.recv_buf) = c.recv_state.ds.length
  THEN [conn |-> [c EXCEPT !.recv_buf = <<>>, !.recv_state = _start_recv_state],
        ret |-> Ok(c.recv_buf)]
  ELSE [conn |-> [c EXCEPT !.recv_buf = <<>>, !.recv_state = _start_recv_state],
        ret |-> Err("frame not available")]
get_frame_keep(c) ==
  IF c.recv_state.tag = "Data" /\ Len(c.recv_buf) = c.recv_state.ds.length
  THEN [conn |-> c, ret |-> Ok(c.recv_buf)]
  ELSE [conn |-> c, ret |-> Err("frame not available")]

\* For comparison: a get_frame that hands out a copy and leaves recv_buf filled.
get_frame_stale(c) ==
  IF c.recv_state.tag = "Data" /\ Len(c.recv_buf) = c.recv_state.ds.length
  THEN [conn |-> [c EXCEPT !.recv_state = _start_recv_state], ret |-> Ok(c.recv_buf)]
  ELSE [conn |-> c, ret |-> Err("frame not available")]

\* --------------------------------------------------------------- get_frame
get_frame(c) ==
  IF c.recv_state.tag = "Data" /\ Len(c.recv_buf) = c.recv_state.ds.length
  THEN [conn |-> [c EXCEPT !.recv_buf = <<>>, !.recv_state = _start_recv_state],
        ret |-> Ok(c.recv_buf)]
  ELSE [conn |-> c, ret |-> Err("frame not available")]

\* ------------------------------------------------------ the state machine
VARIABLES
  conn,       \* the FramedConnection: recv_buf, recv_state, send_state
  in_flight,  \* the transport's receive side: bytes getc_try has yet to give
  wire,       \* bytes the transport accepted since the last accepted schedule_send
  sched,      \* the frame of the last accepted schedule_send
  carried,    \* number of bytes the transport has accepted
  last,       \* the last call on conn: [op, n, ret]
  tick_failed,\* the most recent tick of conn returned an error
  reported,   \* recv_is_done of the most recent tick that returned a TickProgress
  picked,     \* a get_frame succeeded since that tick
  taken,      \* bytes getc_try has given to conn, in order
  got,        \* the frames get_frame has returned, in order
  panicked,   \* the process has aborted
  sent,       \* SpecLoop: the frames schedule_send accepted, in order
  peer,       \* SpecLoop: a second FramedConnection, fed by the transport of conn
  peer_in,    \* SpecLoop: the bytes in flight to the peer
  peer_last,  \* SpecLoop: the last call on peer
  probe,      \* SpecQuiet: the transport calls of the last tick
  alt,        \* SpecAlt: the transport's answer to the next putc_try, and the
              \* ticks since the frame was scheduled
  port        \* SpecWrap: what the port's last write and last read of the
              \* most recent tick reported to SerialWrap

vars == <<conn, in_flight, wire, sched, carried, last, tick_failed, reported, picked,
          taken, got, panicked, sent, peer, peer_in, peer_last, probe, alt, port>>

NoReturn == [kind |-> "none", val |-> "none"]
\* A call of the API: n is the length of the frame given to schedule_send.
Call(op, n, ret) == [op |-> op, n |-> n, ret |-> ret]
NoFrame == [some |-> FALSE, frame |-> <<>>]
SomeFrame(f) == [some |-> TRUE, frame |-> f]

\* The transport calls of a tick: the putc_try and getc_try calls made, and how
\* many of them the transport answered with Ok(Some).
NoCalls == [tx_tries |-> 0, put |-> 0, rx_tries |-> 0, took |-> 0]
Calls(r, took) ==
  [tx_tries |-> r.tx_tries, put |-> Len(r.out), rx_tries |-> r.rx_tries, took |-> took]

Init ==
  /\ conn = new
  /\ in_flight = <<>>
  /\ wire = <<>>
  /\ sched = NoFrame
  /\ carried = 0
  /\ last = Call("new", 0, NoReturn)
  /\ tick_failed = FALSE
  /\ reported = "never"
  /\ picked = FALSE
  /\ taken = <<>>
  /\ got = <<>>
  /\ panicked = FALSE
  /\ sent = <<>>
  /\ peer = new
  /\ peer_in = <<>>
  /\ peer_last = Call("new", 0, NoReturn)
  /\ probe = NoCalls
  /\ alt = [next |-> "accept", ticks |-> 0]
  /\ port = [write |-> NoIo, read |-> NoIo]

\* The answers a transport may give in one tick.  After a failed putc_try the
\* tick asks the receive side nothing.
Answers(txs, rxs) ==
  [tx_n : txs, tx_last : {"none"}, rx_n : rxs, rx_last : {"none", "err"}]
    \cup [tx_n : txs, tx_last : {"err"}, rx_n : {0}, rx_last : {"none"}]

Bursts == 0 .. MaxBurst
\* Enough for a whole frame of Frames, and for everything in flight.
AllTx == MaxLen + 3
AllRx == MaxWire + MaxFeed

\* The caller schedules a frame.  log: the run keeps the frames it scheduled.
Schedule(frame, log) ==
  /\ ~panicked
  /\ \E r \in {schedule_send(conn, frame)} :
         /\ conn' = r.conn
         /\ last' = Call("schedule_send", Len(frame), r.ret)
         /\ wire' = IF IsOk(r.ret) THEN <<>> ELSE wire
         /\ sched' = IF IsOk(r.ret) THEN SomeFrame(frame) ELSE sched
         /\ sent' = IF IsOk(r.ret) /\ log THEN Append(sent, frame) ELSE sent
  /\ UNCHANGED <<in_flight, carried, tick_failed, reported, picked, taken, got,
                 panicked, peer, peer_in, peer_last, probe>>

ScheduleSend(frame, log) == Schedule(frame, log) /\ UNCHANGED <<alt, port>>

\* The caller ticks the connection; the transport answers as in ans.  The
\* transport puts the bytes it accepts on its own receive side (link "loop"),
\* delivers them to the peer ("peer") or elsewhere ("none").
TickDone(r, link, log) ==
  /\ ~panicked
  /\ LET before == IF link = "loop" THEN in_flight \o r.out ELSE in_flight
     IN  /\ conn' = r.conn
         /\ in_flight' = r.in_flight
         /\ wire' = wire \o r.out
         /\ carried' = carried + Len(r.out)
         /\ taken' = taken \o SubSeq(before, 1, Len(before) - Len(r.in_flight))
         /\ panicked' = IsPanic(r.ret)
         /\ last' = Call("tick", 0, r.ret)
         /\ tick_failed' = IsErr(r.ret)
         /\ reported' = IF ~IsOk(r.ret) THEN reported
                        ELSE IF r.ret.val.recv_is_done THEN "done" ELSE "not done"
         /\ picked' = IF IsOk(r.ret) THEN FALSE ELSE picked
         /\ peer_in' = IF link = "peer" THEN peer_in \o r.out ELSE peer_in
         /\ probe' = IF log THEN Calls(r, Len(before) - Len(r.in_flight)) ELSE probe
  /\ UNCHANGED <<sched, got, sent, peer, peer_last>>

TickOn(ans, link, log) ==
  \E r \in {tick(conn, in_flight, ans, link = "loop")} : TickDone(r, link, log)

TickLog(ans, link, log) == TickOn(ans, link, log) /\ UNCHANGED <<alt, port>>

Tick(ans, link) == TickLog(ans, link, FALSE)

\* The caller asks for the received frame.
GetFrame ==
  /\ ~panicked
  /\ \E r \in {get_frame(conn)} :
         /\ conn' = r.conn
         /\ last' = Call("get_frame", 0, r.ret)
         /\ got' = IF IsOk(r.ret) THEN Append(got, r.ret.val) ELSE got
         /\ picked' = (picked \/ IsOk(r.ret))
  /\ UNCHANGED <<in_flight, wire, sched, carried, tick_failed, reported, taken,
                 panicked, sent, peer, peer_in, peer_last, probe, alt, port>>

\* A byte arrives at the transport's receive side.
Feed(b) ==
  /\ ~panicked
  /\ Len(taken) + Len(in_flight) < MaxFeed
  /\ in_flight' = Append(in_flight, b)
  /\ UNCHANGED <<conn, wire, sched, carried, last, tick_failed, reported, picked,
                 taken, got, panicked, sent, peer, peer_in, peer_last, probe, alt, port>>

\* The transport has room for the frame in the run.
Room(frame, room) == carried + Len(frame) + 3 <= room

\* One connection whose transport loops the bytes it accepts back to its own
\* receive side (tests/test.rs), refusing and failing as it likes.
Next ==
  \/ \E frame \in Frames : Room(frame, MaxWire) /\ ScheduleSend(frame, FALSE)
  \/ \E ans \in Answers(Bursts \cup {AllTx}, Bursts \cup {AllRx}) : Tick(ans, "loop")
  \/ GetFrame

Spec == Init /\ [][Next]_vars

\* One connection that only receives: the environment feeds any bytes.
NextRx ==
  \/ \E b \in FeedBytes : Feed(b)
  \/ \E ans \in Answers({0}, Bursts \cup {AllRx}) : Tick(ans, "none")
  \/ GetFrame

SpecRx == Init /\ [][NextRx]_vars

\* One connection that only sends, also the long frame.
LongFrame == Alternating(0, LongLen)

NextTx ==
  \/ \E frame \in Frames \cup {LongFrame} :
       Room(frame, MaxWire + LongLen) /\ ScheduleSend(frame, FALSE)
  \/ \E ans \in Answers(Bursts \cup {AllTx}, {0}) : Tick(ans, "none")

SpecTx == Init /\ [][NextTx]_vars

\* Two connections in one process, the first one's transport delivering to the
\* second: the sender schedules the next frame only after a tick reported
\* send_is_done, the receiver calls get_frame when a tick reported recv_is_done.
SendReported ==
  last.op = "new" \/ (last.op = "tick" /\ IsOk(last.ret) /\ last.ret.val.send_is_done)
RecvReported ==
  peer_last.op = "tick" /\ IsOk(peer_last.ret) /\ peer_last.ret.val.recv_is_done

PeerTick(ans) ==
  /\ ~panicked
  /\ ~RecvReported
  /\ \E r \in {tick(peer, peer_in, ans, FALSE)} :
         /\ peer' = r.conn
         /\ peer_in' = r.in_flight
         /\ peer_last' = Call("tick", 0, r.ret)
         /\ panicked' = IsPanic(r.ret)
  /\ UNCHANGED <<conn, in_flight, wire, sched, carried, last, tick_failed, reported,
                 picked, taken, got, sent, probe, alt, port>>

PeerGetFrame ==
  /\ ~panicked
  /\ RecvReported
  /\ \E r \in {get_frame(peer)} :
         /\ peer' = r.conn
         /\ peer_last' = Call("get_frame", 0, r.ret)
         /\ got' = IF IsOk(r.ret) THEN Append(got, r.ret.val) ELSE got
  /\ UNCHANGED <<conn, in_flight, wire, sched, carried, last, tick_failed, reported,
                 picked, taken, panicked, sent, peer_in, probe, alt, port>>

NextLoop ==
  \/ \E frame \in Frames :
       SendReported /\ Room(frame, MaxWire) /\ ScheduleSend(frame, TRUE)
  \/ \E ans \in Answers(Bursts \cup {AllTx}, {0}) : Tick(ans, "peer")
  \/ \E ans \in Answers({0}, Bursts \cup {AllRx}) : PeerTick(ans)
  \/ PeerGetFrame

SpecLoop == Init /\ [][NextLoop]_vars

\* One connection on the looping transport, which answers would-block and
\* no-byte as it likes but reports no error; the run keeps the transport calls
\* of each tick, and has room for two frames with payload.
Quiet(txs, rxs) == [tx_n : txs, tx_last : {"none"}, rx_n : rxs, rx_last : {"none"}]

NextQuiet ==
  \/ \E frame \in Frames : Room(frame, MaxWire + 1) /\ ScheduleSend(frame, FALSE)
  \/ \E ans \in Quiet({0, 1, AllTx}, {0, 1, AllRx}) : TickLog(ans, "loop", TRUE)
  \/ GetFrame

SpecQuiet == Init /\ [][NextQuiet]_vars

\* The same with MockSerial as it is: putc_try accepts every byte, getc_try
\* gives every byte in flight.
NextMock ==
  \/ \E frame \in Frames : Room(frame, MaxWire + 1) /\ ScheduleSend(frame, FALSE)
  \/ \E ans \in Quiet({AllTx}, {AllRx}) : TickLog(ans, "loop", TRUE)
  \/ GetFrame

SpecMock == Init /\ [][NextMock]_vars

\* One tick, call by call: the receive loop of _recv_tick runs one iteration at
\* a step.  in_flight is the byte the transport has ready for the next
\* getc_try, if any; after each call the transport readies any byte or none.
\* The tick has returned when last.ret is a Result.
InTick == last.op = "tick" /\ last.ret.kind = "none"
Ready == {<<>>} \cup {<<b>> : b \in FeedBytes}
Progress(t, recv_is_done) ==
  Call("tick", 0, Ok([send_is_done |-> t.ret.val, recv_is_done |-> recv_is_done]))

\* tick is called; its send side has nothing to send.
SpinCall ==
  /\ ~InTick
  /\ last' = Call("tick", 0, NoReturn)
  /\ UNCHANGED <<conn, in_flight, wire, sched, carried, tick_failed, reported, picked,
                 taken, got, panicked, sent, peer, peer_in, peer_last, probe, alt, port>>

\* One iteration of the loop of _recv_tick.  The transport of the run readies
\* no byte that would make the receive buffer longer than MaxLen.
MayReady(recv_buf, next) == next = <<>> \/ Len(recv_buf) < MaxLen
SpinIter(next) ==
  /\ InTick
  /\ \E t \in {_send_tick(conn.send_state, 0, "none")} :
       IF is_frame_complete(conn.recv_state, conn.recv_buf)
       THEN /\ last' = Progress(t, TRUE)
            /\ UNCHANGED <<conn, in_flight>>
       ELSE IF in_flight = <<>>
       THEN /\ last' = Progress(t, FALSE)
            /\ in_flight' = next
            /\ MayReady(conn.recv_buf, next)
            /\ UNCHANGED conn
       ELSE \E r \in {on_byte(conn.recv_state, conn.recv_buf, Head(in_flight))} :
            /\ conn' = [conn EXCEPT !.recv_state = r.recv_state, !.recv_buf = r.recv_buf]
            /\ last' = IF r.done THEN Progress(t, TRUE) ELSE last
            /\ in_flight' = next
            /\ MayReady(r.recv_buf, next)
  /\ UNCHANGED <<wire, sched, carried, tick_failed, reported, picked,
                 taken, got, panicked, sent, peer, peer_in, peer_last, probe, alt, port>>

\* The caller takes the frame, between ticks; the run keeps the last one.
\* Framed: the Result of get_frame, its Vec<u8> in a record.
Framed(ret) == IF IsOk(ret) THEN Ok([frame |-> ret.val]) ELSE ret
SpinGetFrame ==
  /\ ~InTick
  /\ \E r \in {get_frame(conn)} :
         /\ conn' = r.conn
         /\ last' = Call("get_frame", 0, Framed(r.ret))
         /\ got' = IF IsOk(r.ret) THEN <<r.ret.val>> ELSE got
  /\ UNCHANGED <<in_flight, wire, sched, carried, tick_failed, reported, picked, taken,
                 panicked, sent, peer, peer_in, peer_last, probe, alt, port>>

NextSpin ==
  \/ SpinCall
  \/ \E next \in Ready : SpinIter(next)
  \/ SpinGetFrame

\* The processor goes on with the loop it is in: an iteration is a step that
\* changes the receiver, the byte ready, or whether the tick has returned.
spin == <<conn.recv_state.tag, conn.recv_buf, in_flight, last.op, last.ret.kind>>
SpecSpin == Init /\ [][NextSpin]_vars /\ WF_spin(\E next \in Ready : SpinIter(next))

\* A transport that answers putc_try with Ok(Some) and Ok(None) in turn, and
\* getc_try with Ok(None).  Each putc_try of a tick turns the answer over.
Five == <<1, 2, 3, 4, 5>>
AltFrames == {frame \in Frames : Len(frame) >= 1} \cup {Five}
AltWire == 2 * (MaxLen + 3) + Len(Five) + 3
AltAnswer(next) ==
  [tx_n |-> IF next = "accept" THEN 1 ELSE 0, tx_last |-> "none",
   rx_n |-> 0, rx_last |-> "none"]
Turned(next, tries) ==
  IF tries % 2 = 0 THEN next ELSE IF next = "accept" THEN "block" ELSE "accept"
AltBound(frame) == 2 * (Len(frame) + 3)

AltSchedule(frame) ==
  /\ Room(frame, AltWire)
  /\ Schedule(frame, FALSE)
  /\ alt' = [alt EXCEPT !.ticks = 0]
  /\ UNCHANGED port

AltTick ==
  /\ sched.some
  /\ alt.ticks <= AltBound(sched.frame)
  /\ TickOn(AltAnswer(alt.next), "none", TRUE)
  /\ alt' = [next |-> Turned(alt.next, probe'.tx_tries), ticks |-> alt.ticks + 1]
  /\ UNCHANGED port

NextAlt ==
  \/ \E frame \in AltFrames : AltSchedule(frame)
  \/ AltTick

SpecAlt == Init /\ [][NextAlt]_vars

\* A FramedConnection on a SerialWrap: the wrapped port reports byte counts 0,
\* 1, 2 and errors, TimedOut among them, as it likes.
Writes == {IoOk(0), IoOk(2), IoErr("Other")}
Reads == {IoOk(0), IoOk(2), IoErr("TimedOut"), IoErr("Other")}
Reports(ones, then) == [ones : ones, then : then]
WrapFeed == MaxFeed - 3
\* What the last write and the last read of the tick reported.
Reported(r, took, writes, reads) ==
  [write |-> IF r.tx_tries = 0 THEN NoIo
             ELSE IF Refused(r) THEN writes.then ELSE IoOk(1),
   read |-> IF r.rx_tries = 0 THEN NoIo
            ELSE IF r.rx_tries > took THEN reads.then ELSE IoOk(1)]

WrapTick(writes, reads) ==
  \E r \in {tick_wrap(conn, in_flight, writes, reads)} :
    /\ TickDone(r, "none", FALSE)
    /\ port' = Reported(r, Len(taken') - Len(taken), writes, reads)
    /\ UNCHANGED alt

NextWrap ==
  \/ \E frame \in Frames : Room(frame, MaxWire + 1) /\ ScheduleSend(frame, FALSE)
  \/ \E writes \in Reports({0, AllTx}, Writes), reads \in Reports({AllRx}, Reads) :
       WrapTick(writes, reads)
  \/ \E b \in FeedBytes : Len(taken) + Len(in_flight) < WrapFeed /\ Feed(b)
  \/ GetFrame

SpecWrap == Init /\ [][NextWrap]_vars

\* schedule_send at the limit of the length: frames of the lengths SchedLens,
\* the transport carrying MaxWire bytes in the run.
FrameOfLen(n) == [i \in 1 .. n |-> 1]
SchedLens == {1, 2, U16Max, U16Max + 1}

NextSched ==
  \/ \E n \in SchedLens : ScheduleSend(FrameOfLen(n), FALSE)
  \/ \E ans \in Answers(Bursts \cup {AllTx}, {0}) : Tick(ans, "none") /\ carried' <= MaxWire

SpecSched == Init /\ [][NextSched]_vars

\* ------------------------------------------------------------ the claims
\* The wire format of section 4.1: sentinel, length low byte, length high
\* byte, payload.
Encode(F) == <<SENTINEL, Len(F) % 256, Len(F) \div 256>> \o F
IsPrefix(p, q) == Len(p) <= Len(q) /\ p = SubSeq(q, 1, Len(p))
\* How many bytes of the encoding a sending state has behind it.
Position(s) ==
  CASE s.what_next = "Sentinel" -> 0
    [] s.what_next = "Header" -> 1 + s.index
    [] s.what_next = "Data" -> 3 + s.index
IsSending == conn.send_state.tag = "Sending"
IsNotSending == conn.send_state.tag = "NotSending"
TickReturned == last.op = "tick" /\ IsOk(last.ret)

\* C2: the bytes the transport accepts for a scheduled frame F are, in order
\* and each once, 0xFF, |F| mod 256, |F| div 256, F[0..]: at any moment a prefix
\* of that sequence as long as the sending state's position, and all of it, and
\* nothing more, once the send is over.
C2_WireFormat ==
  IF sched.some
  THEN /\ IsPrefix(wire, Encode(sched.frame))
       /\ IsSending => Len(wire) = Position(conn.send_state.s)
       /\ IsNotSending => wire = Encode(sched.frame)
  ELSE wire = <<>> /\ IsNotSending

\* The long frame went out whole, its length bytes 02 01.
C2_Witness ==
  /\ sched.some /\ sched.frame = LongFrame
  /\ IsNotSending /\ TickReturned
  /\ wire = <<SENTINEL, LongLen % 256, LongLen \div 256>> \o LongFrame
  /\ carried > Len(wire)

\* C3: after schedule_send of the empty frame the ticks put FF 00 00 on the
\* transport and nothing else, and the send ends in NotSending with
\* send_is_done = true, without an abort.
C3_EmptyFrame ==
  (sched.some /\ sched.frame = <<>>) =>
     /\ ~panicked
     /\ IsPrefix(wire, <<SENTINEL, 0, 0>>)
     /\ wire = <<SENTINEL, 0, 0>> => IsNotSending
     /\ (wire = <<SENTINEL, 0, 0>> /\ TickReturned) => last.ret.val.send_is_done

\* C7: after schedule_send(F) a tick returns send_is_done = true exactly when
\* the transport has accepted the whole encoding of F, the tick that gets the
\* last byte accepted leaves TX in NotSending, and from NotSending a tick
\* offers the transport nothing and returns send_is_done = true.
C7_SendCompletion ==
  /\ sched.some =>
       /\ TickReturned => (last.ret.val.send_is_done <=> wire = Encode(sched.frame))
       /\ wire = Encode(sched.frame) => IsNotSending
  /\ IsNotSending =>
       \A n \in Bursts \cup {AllTx}, e \in {"none", "err"} :
          LET t == _send_tick(conn.send_state, n, e)
          IN  t.tries = 0 /\ t.out = <<>> /\ IsOk(t.ret) /\ t.ret.val

\* C9: schedule_send(G) while a frame is being sent succeeds and replaces it:
\* TX is at the sentinel of G with the header bytes of |G|, and the bytes the
\* transport accepts from then on are the encoding of G from its first byte.
ScheduleStep ==
  /\ last'.op = "schedule_send"
  /\ last.op # "schedule_send" \/ last.n # last'.n \/ sched' # sched
C9_Replace ==
  [][(ScheduleStep /\ IsSending) =>
       /\ IsOk(last'.ret)
       /\ conn'.send_state =
            Sending([what_next |-> "Sentinel", index |-> 0,
                     header_bytes |-> <<last'.n % 256, last'.n \div 256>>,
                     frame |-> sched'.frame])
       /\ Len(sched'.frame) = last'.n
       /\ wire' = <<>>
     ]_vars
C9_Reschedule ==
  /\ C9_Replace
  /\ [](sched.some /\ carried > Len(wire) => IsPrefix(wire, Encode(sched.frame)))

\* A frame was cut after one byte and the next frame went out whole.
C9_Witness ==
  /\ sched.some /\ Len(sched.frame) = 2
  /\ carried = Len(wire) + 1
  /\ wire = Encode(sched.frame)

\* What a receiver that took the bytes bs has seen (section 4.3): the frames
\* completed, the state of the frame under way, and whether bs ends where a
\* frame ends.
WithFrame(f, d) == [d EXCEPT !.frames = <<f>> \o d.frames]
RECURSIVE Decode(_)
Decode(bs) ==
  IF bs = <<>>
  THEN [frames |-> <<>>, tag |-> "Unknown", hdr |-> <<>>, length |-> 0,
        recv_buf |-> <<>>, fresh |-> TRUE]
  ELSE IF Head(bs) # SENTINEL
  THEN IF Len(bs) = 1
       THEN [frames |-> <<>>, tag |-> "Unknown", hdr |-> <<>>, length |-> 0,
             recv_buf |-> <<>>, fresh |-> FALSE]
       ELSE Decode(Tail(bs))
  ELSE IF Len(bs) < 3
  THEN [frames |-> <<>>, tag |-> "Header", hdr |-> Tail(bs), length |-> 0,
        recv_buf |-> <<>>, fresh |-> FALSE]
  ELSE IF Len(bs) - 3 < bs[2] + 256 * bs[3]
  THEN [frames |-> <<>>, tag |-> "Data", hdr |-> <<>>, length |-> bs[2] + 256 * bs[3],
        recv_buf |-> SubSeq(bs, 4, Len(bs)), fresh |-> FALSE]
  ELSE WithFrame(SubSeq(bs, 4, 3 + bs[2] + 256 * bs[3]),
                 Decode(SubSeq(bs, 4 + bs[2] + 256 * bs[3], Len(bs))))

RxComplete ==
  conn.recv_state.tag = "Data" /\ Len(conn.recv_buf) = conn.recv_state.ds.length

\* The receive state c and the frames g handed out are those of a receiver that
\* has seen d: either every completed frame was handed out, or the last one
\* waits in recv_buf.
RxMatches(c, g, d) ==
  IF Len(g) = Len(d.frames)
  THEN /\ g = d.frames
       /\ c.recv_state.tag = d.tag
       /\ c.recv_buf = d.recv_buf
       /\ d.tag = "Data" => c.recv_state.ds.length = d.length
       /\ d.tag = "Header" =>
            /\ c.recv_state.hs.index = Len(d.hdr)
            /\ \A i \in 1 .. Len(d.hdr) : c.recv_state.hs.bytes[i] = d.hdr[i]
  ELSE /\ Len(g) + 1 = Len(d.frames)
       /\ d.fresh
       /\ g = SubSeq(d.frames, 1, Len(g))
       /\ c.recv_state.tag = "Data"
       /\ c.recv_state.ds.length = Len(d.frames[Len(d.frames)])
       /\ c.recv_buf = d.frames[Len(d.frames)]
RxAsTaken == RxMatches(conn, got, Decode(taken))
TxAsWired ==
  IsSending => /\ sched.some
               /\ conn.send_state.s.frame = sched.frame
               /\ Len(wire) = Position(conn.send_state.s)
               /\ Len(wire) < Len(Encode(sched.frame))
                    => next_byte(conn.send_state.s) = Encode(sched.frame)[Len(wire) + 1]

GetFrameStep ==
  /\ last'.op = "get_frame"
  /\ last.op # "get_frame" \/ last.ret.kind # last'.ret.kind \/ got' # got
SameConn(c, d) ==
  /\ c.send_state.tag = d.send_state.tag
  /\ c.send_state = d.send_state
  /\ c.recv_state.tag = d.recv_state.tag
  /\ c.recv_state = d.recv_state
  /\ c.recv_buf = d.recv_buf

\* C5: get_frame while no frame is complete returns the not-ready error and
\* changes neither the receive state, the receive buffer, the send state nor
\* the transport; the receive state stays that of the bytes taken so far.
C5_Unchanged ==
  [][(GetFrameStep /\ ~RxComplete) =>
       /\ IsErr(last'.ret) /\ last'.ret.val = "frame not available"
       /\ SameConn(conn', conn)
       /\ in_flight' = in_flight /\ taken' = taken /\ wire' = wire /\ got' = got
     ]_vars
C5_NotReady == C5_Unchanged /\ [](last.op = "get_frame" => RxAsTaken)

\* get_frame failed with a frame half received and a frame half sent.
C5_Witness ==
  /\ last.op = "get_frame" /\ IsErr(last.ret)
  /\ conn.recv_state.tag = "Data" /\ Len(conn.recv_buf) = 1
  /\ conn.recv_state.ds.length = 2
  /\ IsSending /\ conn.send_state.s.what_next = "Data"

\* C6: get_frame succeeds exactly when RX is in Data with a full buffer; it
\* returns the buffer and leaves RX in Unknown with an empty buffer, so that a
\* second get_frame is not ready.
C6_Step ==
  [][GetFrameStep =>
       /\ IsOk(last'.ret) <=> RxComplete
       /\ IsOk(last'.ret) =>
            /\ last'.ret.val = conn.recv_buf
            /\ got' = Append(got, conn.recv_buf)
            /\ conn'.recv_state.tag = "Unknown" /\ conn'.recv_buf = <<>>
            /\ IsErr(get_frame(conn').ret)
     ]_vars
\* C6 as stated: a frame is complete exactly when the most recent tick returned
\* recv_is_done = true (and get_frame has not taken the frame since).
C6_MostRecentTick ==
  RxComplete <=> (~tick_failed /\ reported = "done" /\ ~picked)
C6_AsStated == C6_Step /\ []C6_MostRecentTick
\* C6 as amended: exactly when the most recent tick that returned a
\* TickProgress returned recv_is_done = true (and get_frame has not taken the
\* frame since); a tick that ends in a transport error changes nothing of it.
C6_MostRecentProgress ==
  RxComplete <=> (reported = "done" /\ ~picked)
C6_ExactlyOnce == C6_Step /\ []C6_MostRecentProgress

\* A frame was taken, and the next get_frame was refused.
C6_Witness ==
  /\ last.op = "get_frame" /\ IsErr(last.ret)
  /\ Len(got) = 1 /\ Len(got[1]) = 1
  /\ reported = "done" /\ picked /\ tick_failed

\* C8: a tick in which the transport reports an error returns an error.  After
\* a send error TX designates the byte that failed and RX is untouched; after
\* a receive error RX is that of the bytes taken before it; and in every state,
\* so after any later tick, TX and RX are those of the bytes carried so far.
PutcFailed == last'.op = "tick" /\ IsErr(last'.ret)
                /\ last'.ret.val = "unexpected error during putc_try()"
GetcFailed == last'.op = "tick" /\ IsErr(last'.ret)
                /\ last'.ret.val = "unexpected error during getc_try()"
C8_Step ==
  [][/\ PutcFailed =>
          /\ conn'.send_state.tag = "Sending"
          /\ Len(wire') = Position(conn'.send_state.s)
          /\ next_byte(conn'.send_state.s) = Encode(sched.frame)[Len(wire') + 1]
          /\ conn'.recv_state.tag = conn.recv_state.tag
          /\ conn'.recv_state = conn.recv_state
          /\ conn'.recv_buf = conn.recv_buf
          /\ taken' = taken
     /\ GetcFailed =>
          /\ RxMatches(conn', got, Decode(taken'))
          /\ ~is_frame_complete(conn'.recv_state, conn'.recv_buf)
     /\ (last'.op = "tick" /\ tick_failed') <=> (last'.op = "tick" /\ IsErr(last'.ret))
    ]_vars
C8_ErrorKeepsState == C8_Step /\ [](~panicked => TxAsWired /\ RxAsTaken)

\* The receive side failed with both frames half way.
C8_Witness ==
  /\ last.op = "tick" /\ IsErr(last.ret)
  /\ last.ret.val = "unexpected error during getc_try()"
  /\ conn.recv_state.tag = "Data" /\ Len(conn.recv_buf) = 1
  /\ IsSending /\ conn.send_state.s.what_next = "Data" /\ conn.send_state.s.index = 1

\* C10: a fresh receiver fed bytes without 0xFF stays in Unknown with an empty
\* buffer; fed then the encoding of a frame F, it has F complete, and get_frame
\* returns F.
NoSentinel(s) == \A i \in 1 .. Len(s) : s[i] # SENTINEL
C10_NoiseResync ==
  /\ NoSentinel(taken) =>
       /\ conn.recv_state.tag = "Unknown" /\ conn.recv_buf = <<>>
       /\ got = <<>> /\ reported # "done"
  /\ \A k \in 0 .. Len(taken) :
       LET W == SubSeq(taken, k + 1, Len(taken))
           F == SubSeq(W, 4, Len(W))
       IN  (NoSentinel(SubSeq(taken, 1, k)) /\ Len(W) >= 3 /\ W = Encode(F)) =>
             IF got = <<>>
             THEN RxComplete /\ conn.recv_buf = F /\ reported = "done"
             ELSE got = <<F>> /\ conn.recv_state.tag = "Unknown" /\ conn.recv_buf = <<>>

\* Two bytes of noise, then FF 01 00 FF: the frame [0xFF] was handed out.
C10_Witness ==
  /\ taken = <<0, 1, SENTINEL, 1, 0, SENTINEL>>
  /\ got = << <<SENTINEL>> >>

\* C1: with the sender's transport delivering byte for byte to the receiver,
\* frames scheduled one after send_is_done of the other, and get_frame called
\* when recv_is_done is reported, no call aborts, the frames received are the
\* frames sent, in order, and all of them once everything has come through.
C1_Loopback ==
  /\ ~panicked
  /\ IsPrefix(got, sent)
  /\ (IsNotSending /\ peer_in = <<>> /\ ~RecvReported
        /\ peer.recv_state.tag = "Unknown") => got = sent

\* C4: schedule_send returns the too-long error exactly for frames longer than
\* 65535, and then leaves the connection, also a send under way, as it was.
C4_TooLong ==
  [][ScheduleStep =>
       /\ IsErr(last'.ret) <=> last'.n > 65535
       /\ IsOk(last'.ret) <=> last'.n <= 65535
       /\ IsErr(last'.ret) =>
            /\ last'.ret.val = "frame data too long"
            /\ SameConn(conn', conn)
            /\ wire' = wire /\ sched' = sched
       /\ IsOk(last'.ret) =>
            /\ conn'.send_state.tag = "Sending"
            /\ Len(conn'.send_state.s.frame) = last'.n
     ]_vars
C4_Undisturbed ==
  C4_TooLong /\ [](sched.some /\ ~panicked => IsPrefix(wire, Encode(sched.frame)))

\* A frame of 65536 bytes was refused while the frame of 65535 bytes was being
\* sent, two payload bytes out.
C4_Witness ==
  /\ last.op = "schedule_send" /\ last.n = 65536 /\ IsErr(last.ret)
  /\ IsSending /\ conn.send_state.s.what_next = "Data"
  /\ conn.send_state.s.index = 2
  /\ Len(conn.send_state.s.frame) = 65535

\* The receiver has the frame F, complete in recv_buf or handed out.
Recovered(F) ==
  \/ got = <<F>>
  \/ got = <<>> /\ RxComplete /\ conn.recv_buf = F
\* taken is k bytes of noise, the bytes pre, and the encoding of a frame.
FrameAfter(k, pre) ==
  LET W == SubSeq(taken, k + Len(pre) + 1, Len(taken))
  IN  /\ k + Len(pre) + 3 <= Len(taken)
      /\ NoSentinel(SubSeq(taken, 1, k))
      /\ SubSeq(taken, k + 1, k + Len(pre)) = pre
      /\ W = Encode(SubSeq(W, 4, Len(W)))
FrameOf(k, pre) == SubSeq(taken, k + Len(pre) + 4, Len(taken))

\* C11 as stated: after noise P whose only 0xFF, if any, is its last byte,
\* and then the encoding of F, the receiver has F.
C11_AsStated ==
  \A k \in 0 .. Len(taken) :
    /\ FrameAfter(k, <<>>) => Recovered(FrameOf(k, <<>>))
    /\ FrameAfter(k, <<SENTINEL>>) => Recovered(FrameOf(k, <<SENTINEL>>))
\* C11 as amended: after noise P without 0xFF and then the encoding of F the
\* receiver has F; when P ends with 0xFF, that byte is taken for the
\* sentinel, the sentinel of F and its low length byte for the length, and the
\* rest for payload: F is not recovered.
C11_NoiseBeforeSync ==
  \A k \in 0 .. Len(taken) :
    /\ FrameAfter(k, <<>>) => Recovered(FrameOf(k, <<>>))
    /\ FrameAfter(k, <<SENTINEL>>) =>
         LET F == FrameOf(k, <<SENTINEL>>)
         IN  /\ got = <<>>
             /\ conn.recv_state.tag = "Data"
             /\ conn.recv_state.ds.length = SENTINEL + 256 * (Len(F) % 256)
             /\ conn.recv_buf = <<Len(F) \div 256>> \o F
             /\ ~RxComplete

\* Noise 0, a stray 0xFF, then FF 01 00 01.
C11_Witness ==
  /\ taken = <<0, SENTINEL, SENTINEL, 1, 0, 1>>
  /\ conn.recv_state.tag = "Data" /\ conn.recv_state.ds.length = 511
  /\ conn.recv_buf = <<0, 1>>

\* C12: a tick in which the transport accepts no byte and gives no byte leaves
\* the send state, the receive state and the receive buffer as they were and
\* returns send_is_done = (TX is NotSending), recv_is_done = (RX is Data with a
\* full buffer); so does another such tick after it.
Stalled == [tx_n |-> 0, tx_last |-> "none", rx_n |-> 0, rx_last |-> "none"]
StalledStep == last'.op = "tick" /\ probe'.put = 0 /\ probe'.took = 0
NoOp(c, fl, r) ==
  /\ SameConn(r.conn, c)
  /\ r.in_flight = fl /\ r.out = <<>>
  /\ IsOk(r.ret)
  /\ r.ret.val.send_is_done = (c.send_state.tag = "NotSending")
  /\ r.ret.val.recv_is_done =
       (c.recv_state.tag = "Data" /\ Len(c.recv_buf) = c.recv_state.ds.length)
TwiceNoOp(c, fl, r) == NoOp(c, fl, r) /\ NoOp(c, fl, tick(r.conn, r.in_flight, Stalled, TRUE))
C12_Step ==
  [][StalledStep =>
       /\ SameConn(conn', conn)
       /\ in_flight' = in_flight /\ wire' = wire /\ taken' = taken
       /\ IsOk(last'.ret)
       /\ last'.ret.val.send_is_done = IsNotSending
       /\ last'.ret.val.recv_is_done = RxComplete
     ]_vars
C12_Idempotent ==
  C12_Step /\ [](~panicked => TwiceNoOp(conn, in_flight, tick(conn, in_flight, Stalled, TRUE)))

\* The transport stalled a tick with a frame half sent and a frame half received.
C12_Witness ==
  /\ last.op = "tick"
  /\ probe = [tx_tries |-> 1, put |-> 0, rx_tries |-> 1, took |-> 0]
  /\ IsSending /\ conn.send_state.s.what_next = "Data" /\ conn.send_state.s.index = 1
  /\ conn.recv_state.tag = "Header" /\ conn.recv_state.hs.index = 1
  /\ in_flight # <<>>

\* C13: whenever TX is Sending, phase Sentinel has index 0, phase Header has
\* index 0 or 1, phase Data has 0 <= index < |frame|, header_bytes is the
\* little-endian 16-bit encoding of |frame|, and |frame| <= 65535.
C13_TxInvariant ==
  IsSending =>
    LET s == conn.send_state.s
    IN  /\ s.what_next = "Sentinel" => s.index = 0
        /\ s.what_next = "Header" => s.index \in {0, 1}
        /\ s.what_next = "Data" => 0 <= s.index /\ s.index < Len(s.frame)
        /\ s.header_bytes = <<Len(s.frame) % 256, Len(s.frame) \div 256>>
        /\ Len(s.frame) <= 65535

\* C14: recv_buf is empty whenever RX is Unknown or Header, the Header index is
\* 0 or 1, and |recv_buf| <= length whenever RX is Data; a full buffer makes
\* get_frame succeed.
C14_RxInvariant ==
  /\ conn.recv_state.tag \in {"Unknown", "Header"} => conn.recv_buf = <<>>
  /\ conn.recv_state.tag = "Header" => conn.recv_state.hs.index \in {0, 1}
  /\ conn.recv_state.tag = "Data" =>
       /\ Len(conn.recv_buf) <= conn.recv_state.ds.length
       /\ Len(conn.recv_buf) = conn.recv_state.ds.length => IsOk(get_frame(conn).ret)

\* A tick ended in a send error with the header half received, after a frame
\* was handed out.
C14_Witness ==
  /\ last.op = "tick" /\ IsErr(last.ret)
  /\ last.ret.val = "unexpected error during putc_try()"
  /\ conn.recv_state.tag = "Header" /\ conn.recv_state.hs.index = 1
  /\ Len(got) = 1

\* C15: while a completed frame waits for get_frame, a tick takes no byte from
\* the transport and, when it returns, returns recv_is_done = true; the
\* receiver stops at the end of each frame, no byte carried is lost, and the
\* frames of bytes that arrive back to back are returned one after the other.
C15_Step ==
  [][(last'.op = "tick" /\ RxComplete) =>
       /\ taken' = taken
       /\ IsPrefix(in_flight, in_flight')
       /\ conn'.recv_buf = conn.recv_buf /\ conn'.recv_state = conn.recv_state
       /\ IsOk(last'.ret) => last'.ret.val.recv_is_done
       /\ probe'.took = 0 => probe'.rx_tries = 0
     ]_vars
C15_Boundary ==
  /\ Len(taken) + Len(in_flight) = carried
  /\ RxAsTaken
  /\ RxComplete => Decode(taken).fresh
JustScheduled ==
  /\ last.op = "schedule_send" /\ IsOk(last.ret) /\ Len(sched.frame) >= 1
  /\ conn.recv_state.tag = "Unknown" /\ conn.recv_buf = <<>> /\ in_flight = <<>>
C16_TxFirst ==
  [][/\ (JustScheduled /\ last'.op = "tick") =>
          /\ IsOk(last'.ret)
          /\ last'.ret.val.send_is_done /\ last'.ret.val.recv_is_done
          /\ probe'.put = Len(sched.frame) + 3 /\ probe'.took = probe'.put
          /\ get_frame(conn').ret = Ok(sched.frame)
          /\ in_flight' = <<>>
     /\ (last'.op = "tick" /\ (probe' # probe \/ wire' # wire \/ taken' # taken)) =>
          /\ wire' = wire \o SubSeq(wire', Len(wire) + 1, Len(wire'))
          /\ probe'.put = Len(wire') - Len(wire)
          /\ probe'.took = Len(taken') - Len(taken)
          /\ taken' \o in_flight' = taken \o in_flight \o SubSeq(wire', Len(wire) + 1, Len(wire'))
    ]_vars

\* The first tick of a connection sent and received the frame of two bytes.
C16_Witness ==
  /\ last.op = "tick" /\ last.ret = Ok([send_is_done |-> TRUE, recv_is_done |-> TRUE])
  /\ probe = [tx_tries |-> 5, put |-> 5, rx_tries |-> 5, took |-> 5]
  /\ carried = 5 /\ got = <<>> /\ conn.recv_buf = sched.frame

\* C17: every tick terminates, whatever the transport does, also when it has a
\* byte ready at every call.
C17_Terminates == InTick ~> ~InTick

\* C18: once RX has left Unknown a 0xFF is a length byte or a payload byte like
\* any other.  A tick never takes RX from Header or Data back to Unknown or to
\* the start of a header; in Data it appends the bytes it takes to recv_buf,
\* whatever they are, and keeps the length; the frames returned are those of
\* the bytes taken, read without resync; fed FF 01 00 FF the receiver has
\* [0xFF].
Fresh(bs) == SubSeq(bs, Len(taken) + 1, Len(bs))
C18_Step ==
  [][/\ (last'.op = "tick" /\ conn.recv_state.tag = "Data") =>
          /\ conn'.recv_state = conn.recv_state
          /\ conn'.recv_buf = conn.recv_buf \o Fresh(taken')
     /\ (last'.op = "tick" /\ conn.recv_state.tag = "Header") =>
          /\ conn'.recv_state.tag \in {"Header", "Data"}
          /\ conn'.recv_state.tag = "Header" =>
               conn'.recv_state.hs.index = conn.recv_state.hs.index + Len(Fresh(taken'))
          /\ conn'.recv_state.tag = "Data" =>
               /\ Len(Fresh(taken')) >= 2 - conn.recv_state.hs.index
               /\ conn'.recv_buf = SubSeq(Fresh(taken'), 3 - conn.recv_state.hs.index,
                                          Len(Fresh(taken')))
    ]_vars
C18_NoResync ==
  /\ C18_Step
  /\ [](RxAsTaken /\ (taken = <<SENTINEL, 1, 0, SENTINEL>> => Recovered(<<SENTINEL>>)))

\* Fed FF 01 00 FF, the receiver handed out [FF].
C18_Witness ==
  /\ taken = <<SENTINEL, 1, 0, SENTINEL>>
  /\ got = << <<SENTINEL>> >>

\* C19: with a transport that accepts and refuses a byte in turn, a frame of
\* N >= 1 payload bytes is on the wire, whole, within 2 * (N + 3) ticks of its
\* schedule_send; a tick puts at most one byte on the wire; and a tick returns
\* send_is_done = TRUE exactly when the whole frame is on the wire, the first
\* such tick being the one that put the last payload byte there.
AltDone == last.ret.val.send_is_done
C19_Step ==
  [][last'.op = "tick" =>
       /\ Len(wire') <= Len(wire) + 1
       /\ IsOk(last'.ret)
       /\ (IsSending /\ last'.ret.val.send_is_done) =>
             /\ IsNotSending'
             /\ wire' = Append(wire, sched.frame[Len(sched.frame)])
             /\ wire' = Encode(sched.frame)]_vars
C19_AltProgress ==
  /\ C19_Step
  /\ [](sched.some =>
         /\ IsSending => alt.ticks < AltBound(sched.frame) /\ alt.ticks <= Len(wire) + 1
         /\ alt.ticks >= AltBound(sched.frame) => IsNotSending /\ wire = Encode(sched.frame)
         /\ last.op = "tick" => (AltDone <=> wire = Encode(sched.frame)))
C19_Witness ==
  /\ sched = SomeFrame(Five)
  /\ wire = <<SENTINEL, 5, 0, 1, 2, 3, 4, 5>>
  /\ alt.ticks = Len(Five) + 4
  /\ last.op = "tick" /\ AltDone
  /\ probe.put = 1

\* C20: on a SerialWrap no call aborts the process, and a tick in which the
\* port reported a write of a byte count other than 0 or 1, or a read of a
\* byte count other than 1, returns an error.
BadWrite == port.write.io = "ok" /\ port.write.n \notin {0, 1}
BadRead == port.read.io = "ok" /\ port.read.n # 1
C20_NoAbort ==
  /\ ~panicked
  /\ (last.op = "tick" /\ (BadWrite \/ BadRead)) => IsErr(last.ret)

====
